---- MODULE Spec2Model ----
(***************************************************************************)
(* Model of the PT4 database pruner (src/pruner.py): main() drives         *)
(* execute_bulk_pruning() once per requested hand type inside a single     *)
(* PostgreSQL transaction (autocommit off, default READ COMMITTED).        *)
(*                                                                         *)
(* The database is `store` (the committed rows) together with `txDel`      *)
(* (rows this session has deleted and not yet committed); every statement  *)
(* of the session reads View = store minus txDel, as READ COMMITTED does.   *)
(* A statement that fails leaves the transaction in PostgreSQL's failed    *)
(* state (txFailed): every later statement raises, and COMMIT ends the     *)
(* transaction as a rollback.                                              *)
(***************************************************************************)
EXTENDS Integers, Sequences, FiniteSets, TLC

\* ---------------------------------------------------------------- bounds
MaxLimit == 3           \* --limit ranges over 1..MaxLimit
MaxDays == 1            \* --days ranges over 1..MaxDays
MaxExt == 1             \* statements another session may commit during the run
Today == 3              \* CURRENT_DATE, in days; date_played ranges over 1..Today

\* The analysis window (500000 in the source), scaled to the model's tables.
BATCH_SIZE == 2

HandTypes == {"cash", "tourney"}
\* id_player values
Players == {1, 2}
Dates == 1..Today

\* id_hand values of the rows a hand type's tables hold when the run starts
HandIds(t) == IF t = "cash" THEN {1, 2} ELSE {1}

VARIABLES
    args,                 \* parse_arguments(): days, dry_run, hand_types, limit
    store,                \* committed rows: hand type -> [summary, stats]
    txDel,                \* rows deleted by the open transaction, per hand type
    temp,                 \* temp_prune_ids_<type>: staged identifiers, per hand type
    txFailed,             \* the transaction is in the failed state
    pc,                   \* position of the run
    typeIdx,              \* index of hand_type in args.hand_types (main's for loop)
    batch_number,         \* loop variable of the window loop
    windows,              \* the window queries issued for the current type, in order
    pruned_hand_ids,      \* accumulated prunable identifiers of the current type
    total_analyzed,       \* offset + current_limit of the last window done
    stats_deleted,        \* rowcount of the player-statistics DELETE
    total_pruned_summary, \* main's running sum of the first returned value
    results,              \* what main received and printed, one record per type
    finalCall,            \* "none", "commit" or "rollback": what main invoked
    txOutcome,            \* "open", "committed" or "rolledback": how the transaction ended
    warned,               \* the delete-count WARNING was printed
    errSeen,              \* an exception was raised somewhere in the run
    wrote,                \* an INSERT or DELETE statement was executed
    extOps,               \* statements committed by the other session so far
    store0,               \* the committed rows when the run started
    activeResolved,       \* active players seen by the first pre-scan query
    activeUsed            \* active players seen by the latest window query

vars == <<args, store, txDel, temp, txFailed, pc, typeIdx, batch_number, windows,
          pruned_hand_ids, total_analyzed, stats_deleted, total_pruned_summary,
          results, finalCall, txOutcome, warned, errSeen, wrote, extOps,
          store0, activeResolved, activeUsed>>

\* ------------------------------------------------------------ pure helpers
Min(a, b) == IF a < b THEN a ELSE b

\* math.ceil(a / b) for positive b
Ceil(a, b) == (a + b - 1) \div b

Range(s) == {s[i] : i \in DOMAIN s}

HasDuplicates(s) == \E i, j \in DOMAIN s : i < j /\ s[i] = s[j]

\* A hand type's two tables (get_table_names) are modelled by their rows:
\* summary: id_hand -> date_played;  stats: set of <<id_hand, id_player>>.
\* The rows a statement of this session sees.
View(t) ==
    [summary |-> [h \in (DOMAIN store[t].summary) \ txDel[t].summary
                     |-> store[t].summary[h]],
     stats   |-> store[t].stats \ txDel[t].stats]

\* (datetime.now() - timedelta(days)).strftime('%Y-%m-%d')
CutoffDate(days) == Today - days

\* global_active_players: players of a hand of either type played after
\* CURRENT_DATE - INTERVAL 'days'. `db` maps each hand type to its tables.
GlobalActivePlayers(db, days) ==
    {p \in Players :
        \E t \in HandTypes : \E r \in db[t].stats :
            /\ r[2] = p
            /\ r[1] \in DOMAIN db[t].summary
            /\ db[t].summary[r[1]] > Today - days}

CurrentView == [t \in HandTypes |-> View(t)]

\* Mutant of Before: ORDER BY id_hand alone.
Before_IdOnly(tbl, a, b) == a < b

\* ORDER BY date_played ASC, id_hand ASC
Before(tbl, a, b) ==
    \/ tbl.summary[a] < tbl.summary[b]
    \/ (tbl.summary[a] = tbl.summary[b] /\ a < b)

RECURSIVE OrderHands(_, _)
OrderHands(tbl, H) ==
    IF H = {} THEN <<>>
    ELSE LET first == CHOOSE a \in H : \A b \in H \ {a} : Before(tbl, a, b)
         IN  <<first>> \o OrderHands(tbl, H \ {first})

\* Mutant of CurrentBatchCandidates: the WHERE clause on date_played is missing.
CurrentBatchCandidates_NoCutoff(tbl, cutoff, limit, offset) ==
    LET all == OrderHands(tbl, DOMAIN tbl.summary)
    IN  SubSeq(all, offset + 1, Min(offset + limit, Len(all)))

\* current_batch_candidates: WHERE date_played <= cutoff ORDER BY .. LIMIT .. OFFSET ..
CurrentBatchCandidates(tbl, cutoff, limit, offset) ==
    LET all == OrderHands(tbl, {h \in DOMAIN tbl.summary : tbl.summary[h] <= cutoff})
    IN  SubSeq(all, offset + 1, Min(offset + limit, Len(all)))

\* Mutant of NoActivePlayer: a hand is kept only when all its players are active.
NoActivePlayer_UnlessAll(tbl, active, h) ==
    \E r \in tbl.stats : r[1] = h /\ r[2] \notin active

\* NOT EXISTS (a player-statistics row of the hand joined to the active players)
NoActivePlayer(tbl, active, h) ==
    ~ \E r \in tbl.stats : r[1] = h /\ r[2] \in active

\* hands_to_prune_batch_query for one window
HandsToPruneBatch(db, t, days, cutoff, limit, offset) ==
    LET active == GlobalActivePlayers(db, days)
        cand   == CurrentBatchCandidates(db[t], cutoff, limit, offset)
    IN  SelectSeq(cand, LAMBDA h : NoActivePlayer(db[t], active, h))

\* ---------------------------------------------------------------- Init
\* The tables over the hand identifiers Ids: any subset of them present, any
\* date_played, any players, every statistics row owned by a summary row.
TablesOver(Ids) ==
    {tb \in [summary : UNION {[H -> Dates] : H \in SUBSET Ids},
             stats   : SUBSET (Ids \X Players)] :
        \A r \in tb.stats : r[1] \in DOMAIN tb.summary}

TablesOf(t) == TablesOver(HandIds(t))

ArgsSet ==
    [days       : 1..MaxDays,
     dry_run    : BOOLEAN,
     hand_types : {<<"cash">>, <<"tourney">>, <<"cash", "tourney">>},
     limit      : 1..MaxLimit]

\* The state of main() after parse_arguments() and create_connection()
RunStart ==
    /\ store0 = store
    /\ txDel = [t \in HandTypes |-> [summary |-> {}, stats |-> {}]]
    /\ temp = [t \in HandTypes |-> {}]
    /\ txFailed = FALSE
    /\ pc = "main_count"
    /\ typeIdx = 1
    /\ batch_number = 0
    /\ windows = <<>>
    /\ pruned_hand_ids = <<>>
    /\ total_analyzed = 0
    /\ stats_deleted = 0
    /\ total_pruned_summary = 0
    /\ results = <<>>
    /\ finalCall = "none"
    /\ txOutcome = "open"
    /\ warned = FALSE
    /\ errSeen = FALSE
    /\ wrote = FALSE
    /\ extOps = 0
    /\ activeResolved = {}
    /\ activeUsed = {}

Init ==
    /\ args \in ArgsSet
    /\ \E c \in TablesOf("cash"), u \in TablesOf("tourney") :
           store = [t \in HandTypes |-> IF t = "cash" THEN c ELSE u]
    /\ RunStart

\* A run over one hand type whose table holds up to three hands, so that a
\* second window has rows to scan.
ScanHandIds == {1, 2, 3}

InitScan ==
    /\ args \in {a \in ArgsSet : a.hand_types = <<"cash">>}
    /\ \E c \in TablesOver(ScanHandIds) :
           store = [t \in HandTypes |->
                       IF t = "cash" THEN c ELSE [summary |-> <<>>, stats |-> {}]]
    /\ RunStart

\* ------------------------------------------------------------- the run
hand_type == args.hand_types[typeIdx]
\* Between the first pre-scan of the run and the final commit or rollback.
\* (What another session commits earlier is part of the initial store.)
Scanning ==
    \/ pc \in {"window", "decide", "stage", "del_stats", "del_summary"}
    \/ (pc \in {"main_count", "prescan"} /\ typeIdx > 1)

\* A statement runs to completion only in a healthy transaction.
StatementOk == ~txFailed
\* A statement raises psycopg2.Error: always in a failed transaction, and
\* otherwise as the one fault a run may meet.
StatementFails == txFailed \/ ~errSeen

\* psycopg2.Error propagating to main's handler
RaiseDbError ==
    /\ txFailed' = TRUE
    /\ errSeen' = TRUE
    /\ pc' = "except"

\* execute_bulk_pruning returns (sd, st); main adds sd to its total, prints the
\* result and moves to the next hand type or to the final decision.
ReturnToMain(sd, st, ran) ==
    /\ total_pruned_summary' = total_pruned_summary + sd
    /\ results' = Append(results,
                         [hand_type             |-> hand_type,
                          summary_deleted       |-> sd,
                          stats_deleted         |-> st,
                          hands_to_delete_count |-> Len(pruned_hand_ids),
                          pruned_hand_ids       |-> pruned_hand_ids,
                          total_analyzed        |-> total_analyzed,
                          windows               |-> windows,
                          remover_ran           |-> ran])
    /\ batch_number' = 0
    /\ windows' = <<>>
    /\ pruned_hand_ids' = <<>>
    /\ total_analyzed' = 0
    /\ stats_deleted' = 0
    /\ IF typeIdx < Len(args.hand_types)
         THEN typeIdx' = typeIdx + 1 /\ pc' = "main_count"
         ELSE typeIdx' = typeIdx /\ pc' = "finalize"

\* main: the two SELECT COUNT(*) statements on the summary table
MainCount ==
    /\ pc = "main_count"
    /\ StatementOk
    /\ pc' = "prescan"
    /\ UNCHANGED <<args, store, txDel, temp, txFailed, typeIdx, batch_number, windows,
                   pruned_hand_ids, total_analyzed, stats_deleted,
                   total_pruned_summary, results, finalCall, txOutcome, warned, errSeen,
                   wrote, extOps, store0, activeResolved, activeUsed>>

MainCountFails ==
    /\ pc = "main_count"
    /\ StatementFails
    /\ RaiseDbError
    /\ UNCHANGED <<args, store, txDel, temp, typeIdx, batch_number, windows,
                   pruned_hand_ids, total_analyzed, stats_deleted,
                   total_pruned_summary, results, finalCall, txOutcome, warned,
                   wrote, extOps, store0, activeResolved, activeUsed>>

\* execute_bulk_pruning: the pre-scan COUNT over global_active_players, then
\* the initialisation of the window loop
PreScan ==
    /\ pc = "prescan"
    /\ StatementOk
    /\ activeResolved' = IF typeIdx = 1
                           THEN GlobalActivePlayers(CurrentView, args.days)
                           ELSE activeResolved
    /\ batch_number' = 0
    /\ windows' = <<>>
    /\ pruned_hand_ids' = <<>>
    /\ total_analyzed' = 0
    /\ pc' = "window"
    /\ UNCHANGED <<args, store, txDel, temp, txFailed, typeIdx, stats_deleted,
                   total_pruned_summary, results, finalCall, txOutcome, warned, errSeen,
                   wrote, extOps, store0, activeUsed>>

PreScanFails ==
    /\ pc = "prescan"
    /\ StatementFails
    /\ RaiseDbError
    /\ UNCHANGED <<args, store, txDel, temp, typeIdx, batch_number, windows,
                   pruned_hand_ids, total_analyzed, stats_deleted,
                   total_pruned_summary, results, finalCall, txOutcome, warned,
                   wrote, extOps, store0, activeResolved, activeUsed>>

total_input_batches == Ceil(args.limit, BATCH_SIZE)

\* Mutant of offset: OFFSET counts windows, not hands.
offset_ByWindow == batch_number

offset == batch_number * BATCH_SIZE

\* Mutant of current_limit: every window asks for a full batch.
current_limit_FullBatch == BATCH_SIZE

current_limit == Min(BATCH_SIZE, args.limit - offset)

\* Mutant of Window: the list is assigned the window's rows, not extended.
Window_Replace ==
    /\ pc = "window"
    /\ StatementOk
    /\ IF current_limit <= 0
         THEN /\ pc' = "decide"
              /\ UNCHANGED <<pruned_hand_ids, total_analyzed, batch_number, windows,
                             activeUsed>>
         ELSE /\ pruned_hand_ids' =
                     HandsToPruneBatch(CurrentView, hand_type, args.days,
                                       CutoffDate(args.days), current_limit, offset)
              /\ windows' = Append(windows,
                     [offset |-> offset, size |-> current_limit, failed |-> FALSE,
                      rows   |-> HandsToPruneBatch(CurrentView, hand_type, args.days,
                                     CutoffDate(args.days), current_limit, offset)])
              /\ activeUsed' = GlobalActivePlayers(CurrentView, args.days)
              /\ total_analyzed' = offset + current_limit
              /\ batch_number' = batch_number + 1
              /\ pc' = IF batch_number + 1 < total_input_batches
                         THEN "window" ELSE "decide"
    /\ UNCHANGED <<args, store, txDel, temp, txFailed, typeIdx, stats_deleted,
                   total_pruned_summary, results, finalCall, txOutcome, warned, errSeen,
                   wrote, extOps, store0, activeResolved>>

\* One iteration of the window loop whose query succeeds
Window ==
    /\ pc = "window"
    /\ StatementOk
    /\ IF current_limit <= 0
         THEN /\ pc' = "decide"
              /\ UNCHANGED <<pruned_hand_ids, total_analyzed, batch_number, windows,
                             activeUsed>>
         ELSE /\ pruned_hand_ids' = pruned_hand_ids \o
                     HandsToPruneBatch(CurrentView, hand_type, args.days,
                                       CutoffDate(args.days), current_limit, offset)
              /\ windows' = Append(windows,
                     [offset |-> offset, size |-> current_limit, failed |-> FALSE,
                      rows   |-> HandsToPruneBatch(CurrentView, hand_type, args.days,
                                     CutoffDate(args.days), current_limit, offset)])
              /\ activeUsed' = GlobalActivePlayers(CurrentView, args.days)
              /\ total_analyzed' = offset + current_limit
              /\ batch_number' = batch_number + 1
              /\ pc' = IF batch_number + 1 < total_input_batches
                         THEN "window" ELSE "decide"
    /\ UNCHANGED <<args, store, txDel, temp, txFailed, typeIdx, stats_deleted,
                   total_pruned_summary, results, finalCall, txOutcome, warned, errSeen,
                   wrote, extOps, store0, activeResolved>>

\* Mutant of WindowFails: the hands found so far are dropped with the error.
WindowFails_Discard ==
    /\ pc = "window"
    /\ StatementFails
    /\ txFailed' = TRUE
    /\ errSeen' = TRUE
    /\ pc' = "decide"
    /\ windows' = Append(windows, [offset |-> offset, size |-> current_limit,
                                   failed |-> TRUE, rows |-> <<>>])
    /\ pruned_hand_ids' = <<>>
    /\ UNCHANGED <<args, store, txDel, temp, typeIdx, batch_number,
                   total_analyzed, stats_deleted,
                   total_pruned_summary, results, finalCall, txOutcome, warned,
                   wrote, extOps, store0, activeResolved, activeUsed>>

\* The window query raises psycopg2.Error: printed, then `break`
WindowFails ==
    /\ pc = "window"
    /\ StatementFails
    /\ txFailed' = TRUE
    /\ errSeen' = TRUE
    /\ pc' = "decide"
    /\ windows' = Append(windows, [offset |-> offset, size |-> current_limit,
                                   failed |-> TRUE, rows |-> <<>>])
    /\ UNCHANGED <<args, store, txDel, temp, typeIdx, batch_number,
                   pruned_hand_ids, total_analyzed, stats_deleted,
                   total_pruned_summary, results, finalCall, txOutcome, warned,
                   wrote, extOps, store0, activeResolved, activeUsed>>

hands_to_delete_count == Len(pruned_hand_ids)

\* Mutant of Decide: the dry-run return is missing.
Decide_NoDryRunReturn ==
    /\ pc = "decide"
    /\ IF hands_to_delete_count = 0
         THEN ReturnToMain(0, 0, FALSE)
         ELSE /\ pc' = "stage"
              /\ UNCHANGED <<typeIdx, batch_number, windows, pruned_hand_ids,
                             total_analyzed, stats_deleted,
                             total_pruned_summary, results>>
    /\ UNCHANGED <<args, store, txDel, temp, txFailed, finalCall, txOutcome, warned,
                   errSeen, wrote, extOps, store0, activeResolved, activeUsed>>

\* Mutant of Decide: the return for an empty list is missing.
Decide_NoEmptyReturn ==
    /\ pc = "decide"
    /\ IF args.dry_run
         THEN ReturnToMain(hands_to_delete_count, 0, FALSE)
         ELSE /\ pc' = "stage"
              /\ UNCHANGED <<typeIdx, batch_number, windows, pruned_hand_ids,
                             total_analyzed, stats_deleted,
                             total_pruned_summary, results>>
    /\ UNCHANGED <<args, store, txDel, temp, txFailed, finalCall, txOutcome, warned,
                   errSeen, wrote, extOps, store0, activeResolved, activeUsed>>

\* After the loop: the summary, and the two early returns
Decide ==
    /\ pc = "decide"
    /\ IF hands_to_delete_count = 0
         THEN ReturnToMain(0, 0, FALSE)
         ELSE IF args.dry_run
                THEN ReturnToMain(hands_to_delete_count, 0, FALSE)
                ELSE /\ pc' = "stage"
                     /\ UNCHANGED <<typeIdx, batch_number, windows, pruned_hand_ids,
                                    total_analyzed, stats_deleted,
                                    total_pruned_summary, results>>
    /\ UNCHANGED <<args, store, txDel, temp, txFailed, finalCall, txOutcome, warned,
                   errSeen, wrote, extOps, store0, activeResolved, activeUsed>>

\* CREATE TEMP TABLE .. (id_hand BIGINT PRIMARY KEY) ON COMMIT DROP and the
\* executemany INSERT of pruned_hand_ids
Stage ==
    /\ pc = "stage"
    /\ StatementOk
    /\ ~HasDuplicates(pruned_hand_ids)
    /\ temp' = [temp EXCEPT ![hand_type] = Range(pruned_hand_ids)]
    /\ wrote' = TRUE
    /\ pc' = "del_stats"
    /\ UNCHANGED <<args, store, txDel, txFailed, typeIdx, batch_number, windows,
                   pruned_hand_ids, total_analyzed, stats_deleted,
                   total_pruned_summary, results, finalCall, txOutcome, warned, errSeen,
                   extOps, store0, activeResolved, activeUsed>>

StageFails ==
    /\ pc = "stage"
    /\ (StatementFails \/ HasDuplicates(pruned_hand_ids))
    /\ RaiseDbError
    /\ UNCHANGED <<args, store, txDel, temp, typeIdx, batch_number, windows,
                   pruned_hand_ids, total_analyzed, stats_deleted,
                   total_pruned_summary, results, finalCall, txOutcome, warned,
                   wrote, extOps, store0, activeResolved, activeUsed>>

\* Mutant of StatsRowsToDelete: only the first statistics row of each staged hand.
StatsRowsToDelete_FirstPlayer(t) ==
    {r \in View(t).stats : r[1] \in temp[t] /\ r[2] = 1}

\* DELETE FROM {player_stats} WHERE id_hand IN (SELECT id_hand FROM {temp_table})
StatsRowsToDelete(t) == {r \in View(t).stats : r[1] \in temp[t]}

DeleteStats ==
    /\ pc = "del_stats"
    /\ StatementOk
    /\ txDel' = [txDel EXCEPT ![hand_type].stats = @ \cup StatsRowsToDelete(hand_type)]
    /\ stats_deleted' = Cardinality(StatsRowsToDelete(hand_type))
    /\ wrote' = TRUE
    /\ pc' = "del_summary"
    /\ UNCHANGED <<args, store, temp, txFailed, typeIdx, batch_number, windows,
                   pruned_hand_ids, total_analyzed, total_pruned_summary,
                   results, finalCall, txOutcome, warned, errSeen, extOps, store0,
                   activeResolved, activeUsed>>

DeleteStatsFails ==
    /\ pc = "del_stats"
    /\ StatementFails
    /\ RaiseDbError
    /\ UNCHANGED <<args, store, txDel, temp, typeIdx, batch_number, windows,
                   pruned_hand_ids, total_analyzed, stats_deleted,
                   total_pruned_summary, results, finalCall, txOutcome, warned,
                   wrote, extOps, store0, activeResolved, activeUsed>>

\* Mutant of SummaryRowsToDelete: only staged hands that still have statistics rows.
SummaryRowsToDelete_Joined(t) ==
    {h \in (DOMAIN View(t).summary) \cap temp[t] :
        \E r \in store[t].stats : r[1] = h}

\* DELETE FROM {summary} WHERE id_hand IN (SELECT id_hand FROM {temp_table})
SummaryRowsToDelete(t) == (DOMAIN View(t).summary) \cap temp[t]

\* Mutant of DeleteSummary: the deletion of each hand type is committed at once.
DeleteSummary_Commit ==
    /\ pc = "del_summary"
    /\ StatementOk
    /\ LET summary_deleted == Cardinality(SummaryRowsToDelete(hand_type))
           gone == [txDel EXCEPT ![hand_type].summary =
                                     @ \cup SummaryRowsToDelete(hand_type)]
       IN  /\ store' = [t \in HandTypes |->
                          [summary |-> [h \in (DOMAIN store[t].summary) \ gone[t].summary
                                           |-> store[t].summary[h]],
                           stats   |-> store[t].stats \ gone[t].stats]]
           /\ warned' = (warned \/ summary_deleted # hands_to_delete_count)
           /\ ReturnToMain(summary_deleted, stats_deleted, TRUE)
    /\ txDel' = [t \in HandTypes |-> [summary |-> {}, stats |-> {}]]
    /\ temp' = [t \in HandTypes |-> {}]
    /\ finalCall' = "commit"
    /\ txOutcome' = "committed"
    /\ wrote' = TRUE
    /\ UNCHANGED <<args, txFailed, errSeen, extOps,
                   store0, activeResolved, activeUsed>>

\* The summary DELETE, the delete-count safety check and the return
DeleteSummary ==
    /\ pc = "del_summary"
    /\ StatementOk
    /\ LET summary_deleted == Cardinality(SummaryRowsToDelete(hand_type))
       IN  /\ txDel' = [txDel EXCEPT ![hand_type].summary =
                                         @ \cup SummaryRowsToDelete(hand_type)]
           /\ warned' = (warned \/ summary_deleted # hands_to_delete_count)
           /\ ReturnToMain(summary_deleted, stats_deleted, TRUE)
    /\ wrote' = TRUE
    /\ UNCHANGED <<args, store, temp, txFailed, finalCall, txOutcome, errSeen, extOps,
                   store0, activeResolved, activeUsed>>

DeleteSummaryFails ==
    /\ pc = "del_summary"
    /\ StatementFails
    /\ RaiseDbError
    /\ UNCHANGED <<args, store, txDel, temp, typeIdx, batch_number, windows,
                   pruned_hand_ids, total_analyzed, stats_deleted,
                   total_pruned_summary, results, finalCall, txOutcome, warned,
                   wrote, extOps, store0, activeResolved, activeUsed>>

NoTxDel == [t \in HandTypes |-> [summary |-> {}, stats |-> {}]]
NoTemp == [t \in HandTypes |-> {}]

\* conn.commit(): persists the transaction's deletions, unless the transaction
\* is in the failed state, where COMMIT ends it as a rollback.
ConnCommit ==
    /\ store' = IF txFailed THEN store ELSE CurrentView
    /\ txDel' = NoTxDel
    /\ temp' = NoTemp
    /\ txFailed' = FALSE
    /\ txOutcome' = IF txFailed THEN "rolledback" ELSE "committed"
    /\ finalCall' = "commit"

\* conn.rollback()
ConnRollback ==
    /\ store' = store
    /\ txDel' = NoTxDel
    /\ temp' = NoTemp
    /\ txFailed' = FALSE
    /\ txOutcome' = "rolledback"
    /\ finalCall' = "rollback"

\* Mutant of Finalize: the commit branch tests the mode alone.
Finalize_ModeOnly ==
    /\ pc = "finalize"
    /\ IF ~args.dry_run
         THEN ConnCommit
         ELSE ConnRollback
    /\ pc' = "finally"
    /\ UNCHANGED <<args, typeIdx, batch_number, windows, pruned_hand_ids, total_analyzed,
                   stats_deleted, total_pruned_summary, results, warned,
                   errSeen, wrote, extOps, store0, activeResolved, activeUsed>>

\* main: "Final Commit or Rollback"
Finalize ==
    /\ pc = "finalize"
    /\ IF ~args.dry_run /\ total_pruned_summary > 0
         THEN ConnCommit
         ELSE ConnRollback
    /\ pc' = "finally"
    /\ UNCHANGED <<args, typeIdx, batch_number, windows, pruned_hand_ids, total_analyzed,
                   stats_deleted, total_pruned_summary, results, warned,
                   errSeen, wrote, extOps, store0, activeResolved, activeUsed>>

\* An exception that is not a psycopg2.Error, raised somewhere in main's try
ScriptError ==
    /\ pc \in {"main_count", "prescan", "window", "decide", "stage",
               "del_stats", "del_summary", "finalize"}
    /\ ~errSeen
    /\ errSeen' = TRUE
    /\ pc' = "except"
    /\ UNCHANGED <<args, store, txDel, temp, txFailed, typeIdx, batch_number, windows,
                   pruned_hand_ids, total_analyzed, stats_deleted,
                   total_pruned_summary, results, finalCall, txOutcome, warned,
                   wrote, extOps, store0, activeResolved, activeUsed>>

\* Mutant of Except: the handler only prints.
Except_NoRollback ==
    /\ pc = "except"
    /\ pc' = "finally"
    /\ UNCHANGED <<args, store, txDel, temp, txFailed, finalCall, txOutcome,
                   typeIdx, batch_number, windows, pruned_hand_ids, total_analyzed,
                   stats_deleted, total_pruned_summary, results, warned,
                   errSeen, wrote, extOps, store0, activeResolved, activeUsed>>

\* main: except psycopg2.Error / except Exception: conn.rollback()
Except ==
    /\ pc = "except"
    /\ ConnRollback
    /\ pc' = "finally"
    /\ UNCHANGED <<args, typeIdx, batch_number, windows, pruned_hand_ids, total_analyzed,
                   stats_deleted, total_pruned_summary, results, warned,
                   errSeen, wrote, extOps, store0, activeResolved, activeUsed>>

\* main: finally: cursor.close(); conn.close()
Finally ==
    /\ pc = "finally"
    /\ pc' = "closed"
    /\ UNCHANGED <<args, store, txDel, temp, txFailed, typeIdx, batch_number, windows,
                   pruned_hand_ids, total_analyzed, stats_deleted,
                   total_pruned_summary, results, finalCall, txOutcome, warned, errSeen,
                   wrote, extOps, store0, activeResolved, activeUsed>>

Next ==
    \/ MainCount \/ MainCountFails
    \/ PreScan \/ PreScanFails
    \/ Window \/ WindowFails
    \/ Decide
    \/ Stage \/ StageFails
    \/ DeleteStats \/ DeleteStatsFails
    \/ DeleteSummary \/ DeleteSummaryFails
    \/ Finalize \/ ScriptError \/ Except \/ Finally

Spec == Init /\ [][Next]_vars

\* The same run over the three-hand cash table.
SpecScan == InitScan /\ [][Next]_vars

\* The run under the fairness of a sequential program: it keeps executing
\* its next statement until the connection is closed.
SpecLive == Init /\ [][Next]_vars /\ WF_vars(Next)

\* ------------------------------------------------------- repeated runs
MaxRuns == 2

\* The script is started again with the same arguments on the data the
\* previous run left; `results` keeps the earlier runs' records.
Rerun ==
    /\ pc = "closed"
    /\ Len(results) < MaxRuns * Len(args.hand_types)
    /\ pc' = "main_count"
    /\ typeIdx' = 1
    /\ total_pruned_summary' = 0
    /\ finalCall' = "none"
    /\ txOutcome' = "open"
    /\ warned' = FALSE
    /\ wrote' = FALSE
    /\ UNCHANGED <<args, store, txDel, temp, txFailed, batch_number, windows,
                   pruned_hand_ids, total_analyzed, stats_deleted, results,
                   errSeen, extOps, store0, activeResolved, activeUsed>>

NextRerun ==
    \/ MainCount \/ PreScan \/ Window \/ Decide
    \/ Stage \/ DeleteStats \/ DeleteSummary
    \/ Finalize \/ Finally
    \/ Rerun

\* Runs without fault, one after the other, with no other writer.
SpecRerun == Init /\ [][NextRerun]_vars

\* ------------------------------------------------- another session's writes
\* Under READ COMMITTED every later statement of the run sees what another
\* session has committed in the meantime.
OtherVars == <<args, txDel, temp, txFailed, pc, typeIdx, batch_number, windows,
               pruned_hand_ids, total_analyzed, stats_deleted,
               total_pruned_summary, results, finalCall, txOutcome, warned, errSeen,
               wrote, store0, activeResolved, activeUsed>>

FreshHandId(t) ==
    (CHOOSE m \in HandIds(t) : \A x \in HandIds(t) : x <= m) + extOps + 1

\* Another session records a hand played today by player p.
ExtInsertRecent ==
    /\ Scanning
    /\ extOps < MaxExt
    /\ \E t \in HandTypes, p \in Players :
          LET h == FreshHandId(t)
          IN  store' = [store EXCEPT
                  ![t].summary = [x \in (DOMAIN @) \cup {h} |->
                                      IF x = h THEN Today ELSE @[x]],
                  ![t].stats = @ \cup {<<h, p>>}]
    /\ extOps' = extOps + 1
    /\ UNCHANGED OtherVars

\* Another session deletes a hand (its statistics rows, then its summary row)
\* that this transaction has not touched.
ExtDeleteHand ==
    /\ Scanning
    /\ extOps < MaxExt
    /\ \E t \in HandTypes : \E h \in DOMAIN store[t].summary :
          /\ h \notin txDel[t].summary
          /\ \A r \in txDel[t].stats : r[1] # h
          /\ store' = [store EXCEPT
                  ![t].summary = [x \in (DOMAIN @) \ {h} |-> @[x]],
                  ![t].stats = {r \in @ : r[1] # h}]
    /\ extOps' = extOps + 1
    /\ UNCHANGED OtherVars

NextExt ==
    \/ MainCount \/ PreScan \/ Window \/ Decide
    \/ Stage \/ DeleteStats \/ DeleteSummary
    \/ Finalize \/ Finally
    \/ ExtInsertRecent \/ ExtDeleteHand

\* The run, with no statement failing, and another session writing beside it.
SpecExt == Init /\ [][NextExt]_vars

\* ================================================================ claims
Ended == pc \in {"finally", "closed"}

\* The hands of type t that were in the store at the start and are gone now.
DeletedHands(t) == (DOMAIN store0[t].summary) \ (DOMAIN store[t].summary)

\* Players with a hand of either type played inside the recency window, read
\* off the rows directly.
RecentPlayers(db, days) ==
    {p \in Players :
        \E t \in HandTypes : \E h \in DOMAIN db[t].summary :
            db[t].summary[h] + days > Today /\ <<h, p>> \in db[t].stats}

RECURSIVE SumEligible(_)
SumEligible(rs) ==
    IF rs = <<>> THEN 0
    ELSE rs[1].hands_to_delete_count + SumEligible(Tail(rs))

\* ---- C1
\* C1 (core retention safety): once the transaction has committed, no deleted
\* hand has a statistics row whose player is recently active.
C1_RetentionSafety ==
    txOutcome = "committed" =>
        \A t \in HandTypes : \A h \in DeletedHands(t) :
            \A p \in Players :
                <<h, p>> \in store0[t].stats => p \notin RecentPlayers(store0, args.days)

\* A commit that deleted a hand with a player, and kept an old hand because one
\* of its players is active.
C1_Witness ==
    /\ txOutcome = "committed"
    /\ \E t \in HandTypes : \E h \in DeletedHands(t) : \E p \in Players :
          <<h, p>> \in store0[t].stats
    /\ \E t \in HandTypes : \E h \in DOMAIN store[t].summary : \E p \in Players :
          /\ t \in Range(args.hand_types)
          /\ store[t].summary[h] <= CutoffDate(args.days)
          /\ <<h, p>> \in store[t].stats
          /\ p \in RecentPlayers(store0, args.days)

\* ---- C2
\* C2 (dry-run never mutates): in a dry run no INSERT or DELETE is executed,
\* the tables stay as they were, commit is never invoked and the run ends by
\* rollback.
C2_DryRunNeverMutates ==
    args.dry_run =>
        /\ ~wrote
        /\ txDel = NoTxDel
        /\ store = store0
        /\ finalCall # "commit"
        /\ (Ended => finalCall = "rollback" /\ txOutcome = "rolledback")

\* A finished dry run that found hands to prune.
C2_Witness ==
    /\ args.dry_run
    /\ pc = "closed"
    /\ ~errSeen
    /\ SumEligible(results) > 0

\* ---- C3
\* C3 (whole-run atomicity on error), as claimed: a run in which an error was
\* raised ends by rollback, never by commit, and persists nothing.
C3_ErrorForcesRollback ==
    (errSeen /\ Ended) =>
        /\ finalCall = "rollback"
        /\ store = store0

\* ---- C4
\* C4 (commit decision): a run without error commits iff it is in commit mode
\* and the prunable counts of the requested types sum to more than 0;
\* otherwise it rolls back.
C4_CommitDecision ==
    (Ended /\ ~errSeen) =>
        /\ (finalCall = "commit") <=> (~args.dry_run /\ SumEligible(results) > 0)
        /\ finalCall \in {"commit", "rollback"}
        /\ (finalCall = "commit") <=> (txOutcome = "committed")

\* A run in commit mode, without error, of both types, that committed.
C4_Witness ==
    /\ pc = "closed"
    /\ ~errSeen
    /\ Len(results) = 2
    /\ finalCall = "commit"

\* ---- C5
\* C5 (referential safety post-delete): after a commit no statistics row
\* refers to a hand without a summary row, and no summary row is left for an
\* identifier that was handed to the deletion.
C5_ReferentialSafety ==
    txOutcome = "committed" =>
        /\ \A t \in HandTypes : \A r \in store[t].stats :
              r[1] \in DOMAIN store[t].summary
        /\ \A i \in DOMAIN results :
              results[i].remover_ran =>
                  Range(results[i].pruned_hand_ids)
                      \cap DOMAIN store[results[i].hand_type].summary = {}

\* A commit that deleted a hand which had two statistics rows.
C5_Witness ==
    /\ txOutcome = "committed"
    /\ \E t \in HandTypes : \E h \in DeletedHands(t) :
          \A p \in Players : <<h, p>> \in store0[t].stats

\* ---- C6
\* The position of hand h among the hands of the table played on or before
\* the cutoff, in (date_played, id_hand) order, counted from 0.
RankOf(tbl, cutoff, h) ==
    Cardinality({g \in DOMAIN tbl.summary :
        /\ tbl.summary[g] <= cutoff
        /\ \/ tbl.summary[g] < tbl.summary[h]
           \/ (tbl.summary[g] = tbl.summary[h] /\ g < h)})

\* The candidate slice of the window about to be queried.
WindowSlice ==
    {h \in DOMAIN View(hand_type).summary :
        /\ View(hand_type).summary[h] <= CutoffDate(args.days)
        /\ RankOf(View(hand_type), CutoffDate(args.days), h) >= offset
        /\ RankOf(View(hand_type), CutoffDate(args.days), h) < offset + current_limit}

\* The identifiers the window query of this step returned.
WindowRows ==
    Range(SubSeq(pruned_hand_ids', Len(pruned_hand_ids) + 1, Len(pruned_hand_ids')))

WindowDone == pc = "window" /\ batch_number' = batch_number + 1

\* C6 (set-difference correctness): every window query returns exactly the
\* hands of its candidate slice none of whose statistics rows names a
\* recently active player; a hand without statistics rows is returned.
C6_SetDifference ==
    [][WindowDone =>
          /\ WindowRows \subseteq WindowSlice
          /\ \A h \in WindowSlice :
                h \in WindowRows <=>
                    \A p \in Players :
                        <<h, p>> \in View(hand_type).stats =>
                            p \notin RecentPlayers(CurrentView, args.days)
      ]_vars

\* After a one-hand first window over two candidates whose date order is the
\* reverse of their identifier order, the older hand, which has no statistics
\* rows, was returned.
C6_Witness ==
    /\ pc = "window"
    /\ batch_number = 1
    /\ hand_type = "cash"
    /\ pruned_hand_ids = <<2>>
    /\ 1 \in DOMAIN store["cash"].summary
    /\ store["cash"].summary[2] < store["cash"].summary[1]
    /\ store["cash"].summary[1] <= CutoffDate(args.days)
    /\ \A p \in Players : <<2, p>> \notin store["cash"].stats

\* ---- C7
\* C7 (dry-run result record), as claimed: in a dry run every per-type result
\* reports summary_deleted = 0 and participation_deleted = 0.
C7_DryRunReportsZeroDeleted ==
    args.dry_run =>
        \A i \in DOMAIN results :
            results[i].summary_deleted = 0 /\ results[i].stats_deleted = 0

\* ---- C8
\* C8 (the active-player set is a fixed snapshot), as claimed: every window
\* query is judged against the set of active players resolved by the first
\* pre-scan of the run.
C8_ActiveSetFixed ==
    batch_number >= 1 => activeUsed = activeResolved

\* ---- C9
\* C9 (delete-count invariant): after a commit, with no other writer, every
\* type whose rows were deleted reports summary_deleted equal to the number of
\* identifiers found prunable.
C9_DeleteCount ==
    txOutcome = "committed" =>
        \A i \in DOMAIN results :
            results[i].remover_ran =>
                results[i].summary_deleted = results[i].hands_to_delete_count

\* A commit after the deletion of two hands of one type.
C9_Witness ==
    /\ txOutcome = "committed"
    /\ \E i \in DOMAIN results :
          results[i].remover_ran /\ results[i].hands_to_delete_count = 2

\* ---- C10
\* C10 (the delete-count anomaly is not fatal), as claimed: a run in commit
\* mode that found hands to prune and met no error commits, whatever
\* summary_deleted turned out to be.
C10_AnomalyNotFatal ==
    (Ended /\ ~errSeen /\ ~args.dry_run /\ SumEligible(results) > 0) =>
        finalCall = "commit"

\* ---- C11
\* The number of hand types a run processes, and so of records it adds to
\* `results` when it meets no fault.
RunLen == Len(args.hand_types)

\* C11 (idempotence under dry-run): however often the dry run is repeated on
\* the same data, each hand type gets the same eligible count in every run
\* and no row is changed, inside the transaction or after it.
C11_DryRunIdempotent ==
    args.dry_run =>
        /\ CurrentView = store0
        /\ store = store0
        /\ \A i, j \in DOMAIN results :
              results[i].hand_type = results[j].hand_type =>
                  results[i].hands_to_delete_count = results[j].hands_to_delete_count

\* Two finished dry runs that each found a hand to prune.
C11_Witness ==
    /\ args.dry_run
    /\ pc = "closed"
    /\ Len(results) = 2 * RunLen
    /\ results[1].hands_to_delete_count > 0

\* ---- C12
\* The hands of type t in the store at the start played on or before the cutoff.
CandidatesAtStart(t) ==
    {h \in DOMAIN store0[t].summary : store0[t].summary[h] <= CutoffDate(args.days)}

\* C12 (re-scan after commit finds nothing), as claimed: when a run in commit
\* mode deleted the prunable hands of a type, the next run with the same
\* arguments reports 0 eligible hands for that type.
C12_RescanFindsNothing ==
    \A i \in 1..RunLen :
        (~args.dry_run /\ Len(results) >= RunLen + i /\ results[i].remover_ran) =>
            results[RunLen + i].hands_to_delete_count = 0

\* C12 as amended: the same, for a limit that covers every hand of the type
\* played on or before the cutoff.
C12_RescanFindsNothingWithinLimit ==
    \A i \in 1..RunLen :
        (/\ ~args.dry_run
         /\ Len(results) >= RunLen + i
         /\ results[i].remover_ran
         /\ args.limit >= Cardinality(CandidatesAtStart(results[i].hand_type))) =>
            results[RunLen + i].hands_to_delete_count = 0

\* Scenario B: the first run deleted two hands within its limit; the second
\* run has scanned the type again.
C12_Witness ==
    /\ ~args.dry_run
    /\ Len(results) = 2 * RunLen
    /\ results[1].remover_ran
    /\ results[1].summary_deleted = 2
    /\ args.limit >= Cardinality(CandidatesAtStart(results[1].hand_type))
    /\ results[RunLen + 1].hands_to_delete_count = 0

\* ---- C13
\* C13 (every run finishes with its transaction closed): every run reaches the
\* closing of the connection; by then it has invoked commit or rollback, the
\* transaction has ended and holds no pending deletion; and the disposition,
\* once taken, is the only one.
C13_TransactionClosed ==
    /\ <>(pc = "closed")
    /\ [](pc \in {"finally", "closed"} =>
            /\ finalCall \in {"commit", "rollback"}
            /\ txOutcome \in {"committed", "rolledback"}
            /\ txDel = NoTxDel
            /\ ~txFailed)
    /\ [][finalCall # "none" => finalCall' = finalCall]_vars

\* A run closed by rollback after an error that struck once rows were deleted.
C13_Witness ==
    /\ pc = "closed"
    /\ errSeen
    /\ wrote
    /\ finalCall = "rollback"

\* ---- C14
\* The number of windows of size W that cover L hands: the least n with n*W >= L.
WindowCount(L, W) == CHOOSE n \in 1..L : n * W >= L /\ (n - 1) * W < L

RECURSIVE SumSizes(_)
SumSizes(ws) == IF ws = <<>> THEN 0 ELSE ws[1].size + SumSizes(Tail(ws))

NoneFailed(ws) == \A k \in DOMAIN ws : ~ws[k].failed

\* C14 (window planner formula): the k-th window issued (from 0) has offset
\* k*W and size min(W, L - k*W) > 0, and a scan that meets no error issues
\* exactly ceil(L/W) windows whose sizes sum to L.
C14_WindowPlan ==
    /\ \A k \in DOMAIN windows :
          /\ windows[k].offset = (k - 1) * BATCH_SIZE
          /\ windows[k].size = (IF k * BATCH_SIZE <= args.limit
                                  THEN BATCH_SIZE
                                  ELSE args.limit - (k - 1) * BATCH_SIZE)
          /\ windows[k].size > 0
    /\ (pc = "decide" /\ NoneFailed(windows)) =>
          /\ Len(windows) = WindowCount(args.limit, BATCH_SIZE)
          /\ SumSizes(windows) = args.limit

\* Scenario C, scaled: the limit is one window and a half, and the windows
\* issued are a full one and the remainder.
C14_Witness ==
    /\ pc = "decide"
    /\ args.limit = BATCH_SIZE + 1
    /\ Len(windows) = 2
    /\ windows[1].offset = 0 /\ windows[1].size = BATCH_SIZE
    /\ windows[2].offset = BATCH_SIZE /\ windows[2].size = 1
    /\ ~windows[2].failed

\* ---- C15
\* C15 (window coverage), as claimed: the total scanned that a scan without
\* error reports is min(L, number of hands on or before the cutoff), and no
\* hand is found in two windows.
C15_TotalScanned ==
    (pc = "decide" /\ ~errSeen) =>
        /\ total_analyzed =
              Min(args.limit, Cardinality(CandidatesAtStart(hand_type)))
        /\ ~HasDuplicates(pruned_hand_ids)

\* ---- C16
\* C16 (windowed scan equals a single scan): after a scan without error the
\* accumulated list is what one query with OFFSET 0 and LIMIT L returns.
C16_WindowedEqualsSingle ==
    (pc = "decide" /\ ~errSeen) =>
        pruned_hand_ids =
            HandsToPruneBatch(CurrentView, hand_type, args.days,
                              CutoffDate(args.days), args.limit, 0)

\* A scan of two windows that both found a hand to prune.
C16_Witness ==
    /\ pc = "decide"
    /\ ~errSeen
    /\ Len(windows) = 2
    /\ windows[1].rows # <<>>
    /\ windows[2].rows # <<>>

\* ---- C17
\* C17 (referential integrity during the delete phase): in every state, and
\* so between any two statements of the deletion, each statistics row the
\* transaction sees belongs to a summary row it sees.
C17_ChildrenBeforeParents ==
    \A t \in HandTypes : \A r \in View(t).stats :
        r[1] \in DOMAIN View(t).summary

\* Between the two DELETEs: statistics rows are gone, their summary rows not yet.
C17_Witness ==
    /\ pc = "del_summary"
    /\ stats_deleted = 2
    /\ temp[hand_type] \subseteq DOMAIN View(hand_type).summary

\* ---- C18
\* C18 (orchestrator phase order), as claimed: once a staging or DELETE
\* statement has been executed, every requested hand type has been scanned
\* and no scan follows.
C18_ScanBeforeRemoval ==
    wrote =>
        /\ typeIdx = Len(args.hand_types)
        /\ pc \notin {"main_count", "prescan", "window"}

\* ---- C19
RECURSIVE ConcatRows(_)
ConcatRows(ws) == IF ws = <<>> THEN <<>> ELSE ws[1].rows \o ConcatRows(Tail(ws))

FailedLast(ws) == ws # <<>> /\ ws[Len(ws)].failed

\* C19 (classifier failure yields a partial result): once the query of window
\* k has failed, no further window is queried and the list carried to the
\* summary is the concatenation of the rows of windows 0..k-1.
C19_PartialResult ==
    /\ FailedLast(windows) =>
          /\ pc # "window"
          /\ batch_number = Len(windows) - 1
          /\ NoneFailed(SubSeq(windows, 1, Len(windows) - 1))
          /\ pruned_hand_ids = ConcatRows(SubSeq(windows, 1, Len(windows) - 1))
    /\ \A i \in DOMAIN results :
          FailedLast(results[i].windows) =>
              /\ results[i].pruned_hand_ids =
                    ConcatRows(SubSeq(results[i].windows, 1,
                                      Len(results[i].windows) - 1))
              /\ results[i].hands_to_delete_count = Len(results[i].pruned_hand_ids)

\* The second window failed after the first had found a hand.
C19_Witness ==
    /\ pc = "decide"
    /\ Len(windows) = 2
    /\ windows[2].failed
    /\ pruned_hand_ids # <<>>

\* ---- C20
\* C20 (bulk remover precondition): the staging and the DELETEs of a hand
\* type run only in commit mode with a non-empty list; a type with no
\* eligible hand returns (0, 0) and executes none of them.
C20_RemoverPrecondition ==
    /\ pc \in {"stage", "del_stats", "del_summary"} =>
          ~args.dry_run /\ hands_to_delete_count > 0
    /\ \A t \in HandTypes : temp[t] # {} => ~args.dry_run
    /\ \A i \in DOMAIN results :
          /\ results[i].remover_ran =>
                ~args.dry_run /\ results[i].hands_to_delete_count > 0
          /\ results[i].hands_to_delete_count = 0 =>
                /\ results[i].summary_deleted = 0
                /\ results[i].stats_deleted = 0
                /\ ~results[i].remover_ran
                /\ temp[results[i].hand_type] = {}

\* The first type had nothing to prune and returned (0, 0) with nothing
\* written; the second type is being deleted.
C20_Witness ==
    /\ pc = "del_stats"
    /\ Len(results) = 1
    /\ results[1].hands_to_delete_count = 0
    /\ ~results[1].remover_ran
    /\ temp[results[1].hand_type] = {}

\* ---- C21
\* The positions of main at which a statement is still to be executed.
InStatements ==
    pc \in {"main_count", "prescan", "window", "decide", "stage",
            "del_stats", "del_summary"}

\* C21 (no mid-run commit): conn.commit() is called at most once, at the final
\* decision after every requested hand type has returned, and after the commit
\* or the final rollback no statement is executed and no row changes.
C21_NoMidRunCommit ==
    /\ [](finalCall # "none" => ~InStatements /\ pc # "finalize")
    /\ [][(finalCall' = "commit" /\ finalCall # "commit") =>
              /\ finalCall = "none"
              /\ pc = "finalize"
              /\ Len(results) = Len(args.hand_types)
              /\ typeIdx = Len(args.hand_types)]_vars
    /\ [][store' # store => finalCall = "none" /\ finalCall' = "commit"]_vars
    /\ [][finalCall # "none" =>
              /\ store' = store
              /\ txDel' = txDel
              /\ temp' = temp
              /\ windows' = windows
              /\ results' = results
              /\ txOutcome' = txOutcome]_vars

\* Both hand types were pruned in one transaction, committed once at the end.
C21_Witness ==
    /\ pc = "closed"
    /\ finalCall = "commit"
    /\ txOutcome = "committed"
    /\ Len(results) = 2
    /\ results[1].summary_deleted > 0
    /\ results[2].summary_deleted > 0

\* ---- C22
PlayedOnOrBeforeCutoff(t, h) ==
    /\ h \in DOMAIN store0[t].summary
    /\ store0[t].summary[h] + args.days <= Today

\* C22 (cutoff bound on deletions): every identifier in a list of hands to
\* prune, every staged identifier and every summary row deleted, in the
\* transaction or for good, was played on or before the cutoff.
C22_CutoffBound ==
    /\ \A h \in Range(pruned_hand_ids) : PlayedOnOrBeforeCutoff(hand_type, h)
    /\ \A k \in DOMAIN windows : \A h \in Range(windows[k].rows) :
          PlayedOnOrBeforeCutoff(hand_type, h)
    /\ \A i \in DOMAIN results : \A h \in Range(results[i].pruned_hand_ids) :
          PlayedOnOrBeforeCutoff(results[i].hand_type, h)
    /\ \A t \in HandTypes : \A h \in temp[t] \cup txDel[t].summary \cup DeletedHands(t) :
          PlayedOnOrBeforeCutoff(t, h)

\* A committed run whose limit exceeded the table: a hand played on the
\* cutoff day is deleted, a newer hand with no player at all is kept.
C22_Witness ==
    /\ txOutcome = "committed"
    /\ \E t \in HandTypes :
          /\ args.limit > Cardinality(DOMAIN store0[t].summary)
          /\ \E h \in DeletedHands(t) : store0[t].summary[h] = Today - args.days
          /\ \E h \in DOMAIN store[t].summary :
                /\ store[t].summary[h] > Today - args.days
                /\ \A r \in store[t].stats : r[1] # h

\* ---- C23
IsPrefix(a, b) == Len(a) <= Len(b) /\ SubSeq(b, 1, Len(a)) = a

InCall ==
    pc \in {"window", "decide", "stage", "del_stats", "del_summary"}

\* C23 (the list of hands to prune has no duplicates and only grows): with no
\* other writer, each step inside execute_bulk_pruning keeps the accumulated
\* list as a prefix of the new one, the list never holds an identifier twice
\* (so the staging INSERT meets no duplicate key), and a hand type's list is
\* staged at most once in a run.
C23_GrowsWithoutDuplicates ==
    /\ [](~HasDuplicates(pruned_hand_ids))
    /\ [](\A i \in DOMAIN results : ~HasDuplicates(results[i].pruned_hand_ids))
    /\ [][(InCall /\ InCall') => IsPrefix(pruned_hand_ids, pruned_hand_ids')]_vars
    /\ [][(pc \in {"decide", "stage", "del_stats", "del_summary"} /\ InCall') =>
              pruned_hand_ids' = pruned_hand_ids]_vars
    /\ [][\A t \in HandTypes :
              (temp'[t] # temp[t] /\ temp'[t] # {}) =>
                  /\ temp[t] = {}
                  /\ pc = "stage"
                  /\ t = hand_type
                  /\ temp'[t] = Range(pruned_hand_ids)
                  /\ Cardinality(temp'[t]) = Len(pruned_hand_ids)
                  /\ \A i \in DOMAIN results : results[i].hand_type # t]_vars

\* A list built from two windows that each added a hand has been staged.
C23_Witness ==
    /\ pc = "del_stats"
    /\ Len(windows) = 2
    /\ windows[1].rows # <<>>
    /\ windows[2].rows # <<>>
    /\ temp[hand_type] = Range(pruned_hand_ids)
    /\ Cardinality(temp[hand_type]) = Len(pruned_hand_ids)

====
